---- MODULE Spec2Model ----
(***************************************************************************)
(* dinghy-web: the per-digest refresh cache (_DigestItemStore), its        *)
(* registry (ItemStore) and the request handler (handle_project) of        *)
(* src/src/dinghy_web/__main__.py.                                         *)
(*                                                                         *)
(* Time is counted in units of 30 minutes.  A datetime is an integer       *)
(* number of units; an entry's "updatedAt" is the upstream's string, a     *)
(* fixed-width sequence of decimal digits, which the code compares as a    *)
(* string when it sorts and parses to a datetime when it filters.          *)
(***************************************************************************)
EXTENDS Integers, Sequences, FiniteSets, TLC

----------------------------------------------------------------------------
(* Program constants, in units of 30 minutes. *)

RefreshAfter == 1

Day == 48

MaxLookBackDays == 7

MaxLookBack == MaxLookBackDays * Day

(* Bounds of the model. *)

MaxGets == 3

MaxTicks == 2

Callers == {1, 2}

Filenames == {"a", "b", "z"}

StartTimes == {1030}

TickSteps == {1, MaxLookBack + Day}

TzOffsets == {-24, 0, 28}

SinceDeltas == {0, MaxLookBack}

Metas == {"m1", "m2"}

\* The entries the upstream has, by id and version.
E1a == [id |-> 1, updatedAt |-> <<1, 0, 0, 8>>, title |-> "x"]
E1b == [id |-> 1, updatedAt |-> <<1, 0, 2, 0>>, title |-> "y"]
E2a == [id |-> 2, updatedAt |-> <<1, 0, 0, 8>>, title |-> "x"]
E2b == [id |-> 2, updatedAt |-> <<1, 0, 2, 0>>, title |-> "x"]

\* The entry lists a fetch can return: none, one entry, two entries oldest
\* first, the same id twice.
FetchLists ==
  { <<>>, <<E1a>>, <<E2b>>, <<E2a, E1b>>, <<E1b, E1a>> }

----------------------------------------------------------------------------
(* Pure helpers. *)

\* utctoday(): utcnow() truncated to midnight.
utctoday(t) == (t \div Day) * Day

\* to_datetime: the digits of the string read as a decimal number.
RECURSIVE to_datetime(_)
to_datetime(s) ==
  IF s = <<>> THEN 0
  ELSE to_datetime(SubSeq(s, 1, Len(s) - 1)) * 10 + s[Len(s)]

\* Python's str < str: lexicographic, a proper prefix is smaller.
RECURSIVE StrLess(_, _)
StrLess(a, b) ==
  IF b = <<>> THEN FALSE
  ELSE IF a = <<>> THEN TRUE
  ELSE IF Head(a) # Head(b) THEN Head(a) < Head(b)
  ELSE StrLess(Tail(a), Tail(b))

\* A dict that keeps both entries of an id.
DictSet_appending(d, e) == Append(d, e)

\* result[entry["id"]] = entry on a dict kept in insertion order.
DictSet(d, e) ==
  IF \E i \in 1..Len(d) : d[i].id = e.id
  THEN [i \in 1..Len(d) |-> IF d[i].id = e.id THEN e ELSE d[i]]
  ELSE Append(d, e)

RECURSIVE DictUpdate(_, _)
DictUpdate(d, xs) ==
  IF xs = <<>> THEN d ELSE DictUpdate(DictSet(d, Head(xs)), Tail(xs))

\* One step of sorted(..., key=itemgetter("updatedAt"), reverse=True): e goes
\* behind every element whose key is not smaller (the sort is stable).
RECURSIVE InsertDesc(_, _)
InsertDesc(xs, e) ==
  IF xs = <<>> THEN <<e>>
  ELSE IF StrLess(Head(xs).updatedAt, e.updatedAt) THEN <<e>> \o xs
  ELSE <<Head(xs)>> \o InsertDesc(Tail(xs), e)

\* A sort without reverse=True: oldest first.
RECURSIVE SortedDesc_ascending(_)
SortedDesc_ascending(xs) ==
  IF xs = <<>> THEN <<>>
  ELSE LET rest == SortedDesc_ascending(SubSeq(xs, 1, Len(xs) - 1))
           e == xs[Len(xs)]
           k == Cardinality({i \in 1..Len(rest) :
                               ~StrLess(e.updatedAt, rest[i].updatedAt)})
       IN SubSeq(rest, 1, k) \o <<e>> \o SubSeq(rest, k + 1, Len(rest))

RECURSIVE SortedDesc(_)
SortedDesc(xs) ==
  IF xs = <<>> THEN <<>>
  ELSE InsertDesc(SortedDesc(SubSeq(xs, 1, Len(xs) - 1)), xs[Len(xs)])

\* A merge in which the entry already held wins.
merge_keeping(existing, new) ==
  SortedDesc(DictUpdate(DictUpdate(<<>>, new), existing))

\* A merge that keeps only what the fetch returned.
merge_replacing(existing, new) == SortedDesc(DictUpdate(<<>>, new))

_merge_entries(existing, new) ==
  SortedDesc(DictUpdate(DictUpdate(<<>>, existing), new))

----------------------------------------------------------------------------
(* Configuration and the upstream. *)

\* What one item's coroutine can return: the digest's fields and its entries.
ItemResults == [meta : Metas, entries : FetchLists]

\* What asyncio.gather returns for a digest of n items.
GatherResults(n) == [1..n -> ItemResults]

----------------------------------------------------------------------------
(* State. *)

NoMeta == "NoMeta"

\* History of a refresh: how it ended, when it started, when the last one that
\* succeeded started, and the data the store held when it ended.
NoHist ==
  [kind |-> "none", start |-> -1, okstart |-> -1, digests |-> <<>>, entries |-> <<>>]

\* A request slot that handles no request.
Idle ==
  [pc |-> "idle", key |-> "a", since |-> 0, called |-> 0, rsince |-> 0,
   rstart |-> 0, nfetch |-> 0, held |-> <<>>, overlap |-> NoHist]

NoRet == [kind |-> "none"]

VARIABLES
  digests,  \* app["digests"]: of each configured filename, how many items its
            \* digest has (len(options["items"]))
  now,      \* datetime.utcnow()
  stores,   \* ItemStore._stores: a function from the filenames it holds
  task,     \* the requests being handled; of request c:
            \*   pc      "idle", "waiting" (on the lock) or "fetching"
            \*   key     the filename asked for
            \*   since   the since of its get
            \*   called  history: utcnow() when it arrived
            \*   rsince  the since argument of the _refresh it is in
            \*   rstart  history: utcnow() when that _refresh started
            \*   nfetch  history: fetches this request has issued
            \*   held    history: the store's data when that _refresh started
            \*   overlap history: the refresh of the key that ended while it waited
  ret,      \* the response the last step produced, NoRet if it produced none
  hist,     \* history: per filename, the refresh that ended last
  created,  \* history: _DigestItemStore instances constructed per filename
  gets,     \* bound: requests handled so far
  ticks     \* bound: clock steps so far

vars == <<digests, now, stores, task, ret, hist, created, gets, ticks>>

\* _DigestItemStore.__init__ for a digest of n items, at local time today.
NewStore(n, today) ==
  [ last_entry |-> today - 2 * MaxLookBack,
    locked     |-> FALSE,
    waiters    |-> <<>>,
    digests    |-> [i \in 1..n |-> NoMeta],
    entries    |-> [i \in 1..n |-> <<>>] ]

\* What every start has in common; main() then sets app["digests"].
Start ==
  /\ now \in StartTimes
  /\ stores = [f \in {} |-> 0]
  /\ task = [c \in Callers |-> Idle]
  /\ ret = NoRet
  /\ hist = [f \in Filenames |-> NoHist]
  /\ created = [f \in Filenames |-> 0]
  /\ gets = 0
  /\ ticks = 0

\* One digest of one item.
Init == Start /\ digests = [f \in {"a"} |-> 1]

----------------------------------------------------------------------------
(* _DigestItemStore.get and _refresh. *)

\* The two rules in the other order.
Stale_routine_first(last_entry, t) ==
  IF t > last_entry + RefreshAfter THEN "routine"
  ELSE IF last_entry < utctoday(t) - MaxLookBack THEN "cold"
  ELSE "fresh"

\* The routine rule with >= for >.
Stale_at_boundary(last_entry, t) ==
  IF last_entry < utctoday(t) - MaxLookBack THEN "cold"
  ELSE IF t >= last_entry + RefreshAfter THEN "routine"
  ELSE "fresh"

\* The staleness rules of get, at time t.
Stale(last_entry, t) ==
  IF last_entry < utctoday(t) - MaxLookBack THEN "cold"
  ELSE IF t > last_entry + RefreshAfter THEN "routine"
  ELSE "fresh"

\* An incremental refresh from the new stamp.
RefreshSince_now(last_entry, t) ==
  IF last_entry < utctoday(t) - MaxLookBack THEN utctoday(t) - MaxLookBack ELSE t

\* The since that get passes to _refresh.
RefreshSince(last_entry, t) ==
  IF Stale(last_entry, t) = "cold" THEN utctoday(t) - MaxLookBack ELSE last_entry

\* A filter that keeps an entry updated at since.
RECURSIVE Newer_inclusive(_, _)
Newer_inclusive(entries, s) ==
  IF entries = <<>> THEN <<>>
  ELSE IF to_datetime(Head(entries).updatedAt) >= s
       THEN <<Head(entries)>> \o Newer_inclusive(Tail(entries), s)
       ELSE Newer_inclusive(Tail(entries), s)

\* A filter with the comparison turned round.
RECURSIVE Newer_older(_, _)
Newer_older(entries, s) ==
  IF entries = <<>> THEN <<>>
  ELSE IF to_datetime(Head(entries).updatedAt) < s
       THEN <<Head(entries)>> \o Newer_older(Tail(entries), s)
       ELSE Newer_older(Tail(entries), s)

\* The entries of a list that get keeps for since s.
RECURSIVE Newer(_, _)
Newer(entries, s) ==
  IF entries = <<>> THEN <<>>
  ELSE IF to_datetime(Head(entries).updatedAt) > s
       THEN <<Head(entries)>> \o Newer(Tail(entries), s)
       ELSE Newer(Tail(entries), s)

\* The results list get returns from store st for since s.
View(st, s) ==
  [i \in 1..Len(st.digests) |->
     [meta |-> st.digests[i], entries |-> Newer(st.entries[i], s)]]

\* History of a response: the response to the get of the same key that
\* returned in the step before, when this get did not refresh after it.
Before(t) ==
  IF ret.kind = "ok" /\ ret.key = t.key /\ t.nfetch = 0
  THEN [kind |-> "ok", since |-> ret.since, view |-> ret.view]
  ELSE [kind |-> "none"]

\* What get returns to request t: the response to it.
Response(t, st) ==
  [kind |-> "ok", key |-> t.key, since |-> t.since, nfetch |-> t.nfetch,
   overlap |-> t.overlap, view |-> View(st, t.since), before |-> Before(t)]

\* What a request that ends without a result leaves behind.
Failure(t, kind) ==
  [kind |-> kind, key |-> t.key, since |-> t.since, nfetch |-> t.nfetch,
   overlap |-> t.overlap]

\* A lock that excludes nobody.
LockFree_unlocked(st) == TRUE

\* One lock for all the stores of the registry.
LockFree_shared(st) ==
  /\ ~st.locked /\ st.waiters = <<>>
  /\ \A f \in DOMAIN stores : ~stores[f].locked

\* asyncio.Lock.acquire returns at once iff the lock is free and nobody queues.
LockFree(st) == ~st.locked /\ st.waiters = <<>>

\* A loop that stores the first result and leaves the rest for later.
Apply_first_item(st, results) ==
  [st EXCEPT
     !.digests = [i \in 1..Len(st.digests) |->
                    IF i = 1 THEN results[i].meta ELSE st.digests[i]],
     !.entries = [i \in 1..Len(st.entries) |->
                    IF i = 1 /\ results[i].entries # <<>>
                    THEN _merge_entries(st.entries[i], results[i].entries)
                    ELSE st.entries[i]]]

\* The loop of _refresh over the gathered results.
Apply(st, results) ==
  [st EXCEPT
     !.digests = [i \in 1..Len(st.digests) |-> results[i].meta],
     !.entries = [i \in 1..Len(st.entries) |->
                    IF results[i].entries # <<>>
                    THEN _merge_entries(st.entries[i], results[i].entries)
                    ELSE st.entries[i]]]

\* A get that leaves the stamping of last_entry to the end of the refresh.
Locked_stamping_late(c, t, reg) ==
  LET st == reg[t.key] IN
  IF Stale(st.last_entry, now) # "fresh"
  THEN /\ stores' = [reg EXCEPT ![t.key] = [st EXCEPT !.locked = TRUE]]
       /\ task' = [task EXCEPT ![c] =
                     [t EXCEPT !.pc = "fetching",
                               !.rsince = RefreshSince(st.last_entry, now),
                               !.rstart = now,
                               !.nfetch = @ + 1,
                               !.held = [digests |-> st.digests, entries |-> st.entries]]]
       /\ ret' = NoRet
  ELSE /\ stores' = [reg EXCEPT ![t.key] = [st EXCEPT !.locked = FALSE]]
       /\ task' = [task EXCEPT ![c] = Idle]
       /\ ret' = Response(t, st)

\* The body of get once request c, in state t, holds the lock of reg[t.key]: up
\* to the await of _refresh, or through to the return when nothing is stale.
Locked(c, t, reg) ==
  LET st == reg[t.key] IN
  IF Stale(st.last_entry, now) # "fresh"
  THEN /\ stores' = [reg EXCEPT ![t.key] =
                       [st EXCEPT !.locked = TRUE, !.last_entry = now]]
       /\ task' = [task EXCEPT ![c] =
                     [t EXCEPT !.pc = "fetching",
                               !.rsince = RefreshSince(st.last_entry, now),
                               !.rstart = now,
                               !.nfetch = @ + 1,
                               !.held = [digests |-> st.digests, entries |-> st.entries]]]
       /\ ret' = NoRet
  ELSE /\ stores' = [reg EXCEPT ![t.key] = [st EXCEPT !.locked = FALSE]]
       /\ task' = [task EXCEPT ![c] = Idle]
       /\ ret' = Response(t, st)

\* async with self._lock, entered by request c in state t.
DigestItemStore_get(c, t, reg) ==
  IF LockFree(reg[t.key])
  THEN Locked(c, t, reg)
  ELSE /\ stores' = [reg EXCEPT ![t.key].waiters = Append(@, c)]
       /\ task' = [task EXCEPT ![c] = [t EXCEPT !.pc = "waiting"]]
       /\ ret' = NoRet

\* The refresh of request c ends as kind, leaving the store data: the history
\* of the key, and of the requests waiting for its lock.
Ended(c, kind, data) ==
  LET f == task[c].key
      h == [kind |-> kind, start |-> task[c].rstart,
            okstart |-> IF kind = "ok" THEN task[c].rstart ELSE hist[f].okstart,
            digests |-> data.digests, entries |-> data.entries]
  IN /\ hist' = [hist EXCEPT ![f] = h]
     /\ task' = [d \in Callers |->
                   IF d = c THEN Idle
                   ELSE IF task[d].pc = "waiting" /\ task[d].key = f
                        THEN [task[d] EXCEPT !.overlap = h]
                        ELSE task[d]]

----------------------------------------------------------------------------
(* ItemStore.get and handle_project. *)

\* A registry that constructs a store for every request.
ItemStore_get_constructing(c, t) ==
  \E off \in TzOffsets :
    /\ created' = [created EXCEPT ![t.key] = @ + 1]
    /\ DigestItemStore_get(c, t,
         [g \in DOMAIN stores \cup {t.key} |->
            IF g = t.key THEN NewStore(digests[g], now + off) ELSE stores[g]])

ItemStore_get(c, t) ==
  IF t.key \notin DOMAIN stores
  THEN \E off \in TzOffsets :
         /\ created' = [created EXCEPT ![t.key] = @ + 1]
         /\ DigestItemStore_get(c, t,
              [g \in DOMAIN stores \cup {t.key} |->
                 IF g = t.key THEN NewStore(digests[g], now + off) ELSE stores[g]])
  ELSE /\ UNCHANGED created
       /\ DigestItemStore_get(c, t, stores)

\* A handler that passes a filename it does not know on to the registry, as
\* a digest of one item.
handle_project_unchecked(c, f, delta) ==
  /\ task[c].pc = "idle"
  /\ \A d \in Callers : task[d].pc = "idle" => c <= d
  /\ gets < MaxGets
  /\ gets' = gets + 1
  /\ LET t == [Idle EXCEPT !.key = f, !.since = utctoday(now) - delta,
                         !.called = now] IN
     IF f \notin DOMAIN stores
     THEN /\ created' = [created EXCEPT ![f] = @ + 1]
          /\ DigestItemStore_get(c, t,
               [g \in DOMAIN stores \cup {f} |->
                  IF g = f THEN NewStore(1, now) ELSE stores[g]])
     ELSE /\ UNCHANGED created
          /\ DigestItemStore_get(c, t, stores)
  /\ UNCHANGED <<digests, now, hist, ticks>>

\* A request for /{f}?since=delta arrives and takes the first free slot.
handle_project(c, f, delta) ==
  /\ task[c].pc = "idle"
  /\ \A d \in Callers : task[d].pc = "idle" => c <= d
  /\ gets < MaxGets
  /\ gets' = gets + 1
  /\ LET t == [Idle EXCEPT !.key = f, !.since = utctoday(now) - delta,
                         !.called = now] IN
     IF f \notin DOMAIN digests
     THEN /\ ret' = Failure(t, "notfound")
          /\ UNCHANGED <<stores, task, created>>
     ELSE ItemStore_get(c, t)
  /\ UNCHANGED <<digests, now, hist, ticks>>

\* The lock is free and request c is the first in its queue: c takes it and
\* runs the body of get.
Acquire(c) ==
  /\ task[c].pc = "waiting"
  /\ ~stores[task[c].key].locked
  /\ Head(stores[task[c].key].waiters) = c
  /\ Locked(c, task[c], [stores EXCEPT ![task[c].key].waiters = Tail(@)])
  /\ UNCHANGED <<digests, now, hist, created, gets, ticks>>

\* asyncio.gather returns results: _refresh applies them, get returns.
FetchReturns(c) ==
  /\ task[c].pc = "fetching"
  /\ \E results \in GatherResults(digests[task[c].key]) :
       LET f == task[c].key
           st == Apply(stores[f], results)
       IN /\ stores' = [stores EXCEPT ![f] = [st EXCEPT !.locked = FALSE]]
          /\ ret' = Response(task[c], st)
          /\ Ended(c, "ok", st)
  /\ UNCHANGED <<digests, now, created, gets, ticks>>

\* A failure that drops what the store held.
FetchRaises_clearing(c) ==
  /\ task[c].pc = "fetching"
  /\ stores' = [stores EXCEPT ![task[c].key] =
                  [@ EXCEPT !.locked = FALSE,
                            !.entries = [i \in 1..Len(@) |-> <<>>]]]
  /\ ret' = Failure(task[c], "error")
  /\ Ended(c, "raised", task[c].held)
  /\ UNCHANGED <<digests, now, created, gets, ticks>>

\* A failure that puts last_entry back to the since of the refresh.
FetchRaises_unstamping(c) ==
  /\ task[c].pc = "fetching"
  /\ stores' = [stores EXCEPT ![task[c].key] =
                  [@ EXCEPT !.locked = FALSE, !.last_entry = task[c].rsince]]
  /\ ret' = Failure(task[c], "error")
  /\ Ended(c, "raised", task[c].held)
  /\ UNCHANGED <<digests, now, created, gets, ticks>>

\* A coroutine of the gather raises: the exception leaves _refresh and get.
FetchRaises(c) ==
  /\ task[c].pc = "fetching"
  /\ stores' = [stores EXCEPT ![task[c].key].locked = FALSE]
  /\ ret' = Failure(task[c], "error")
  /\ Ended(c, "raised", task[c].held)
  /\ UNCHANGED <<digests, now, created, gets, ticks>>

\* The request's task is cancelled at the await it is suspended in.
Cancel(c) ==
  /\ task[c].pc \in {"waiting", "fetching"}
  /\ IF task[c].pc = "fetching"
     THEN /\ stores' = [stores EXCEPT ![task[c].key].locked = FALSE]
          /\ Ended(c, "cancelled", task[c].held)
     ELSE /\ stores' = [stores EXCEPT ![task[c].key].waiters =
                          SelectSeq(@, LAMBDA d : d # c)]
          /\ task' = [task EXCEPT ![c] = Idle]
          /\ UNCHANGED hist
  /\ ret' = Failure(task[c], "cancelled")
  /\ UNCHANGED <<digests, now, created, gets, ticks>>

\* A released lock has a waiter that the event loop is about to resume.
Runnable ==
  \E f \in DOMAIN stores : ~stores[f].locked /\ stores[f].waiters # <<>>

\* Time passes: half an hour or more, which no resumption of a task that is
\* ready to run takes, and less than a day while a fetch is in flight (the
\* upstream's requests time out).
Tick(d) ==
  /\ ~Runnable
  /\ d >= Day => \A c \in Callers : task[c].pc # "fetching"
  /\ ticks < MaxTicks
  /\ ticks' = ticks + 1
  /\ now' = now + d
  /\ ret' = NoRet
  /\ UNCHANGED <<digests, stores, task, hist, created, gets>>

Next ==
  \/ \E c \in Callers, f \in DOMAIN digests \cup {"z"}, delta \in SinceDeltas :
       handle_project(c, f, delta)
  \/ \E c \in Callers : Acquire(c)
  \/ \E c \in Callers : FetchReturns(c)
  \/ \E c \in Callers : FetchRaises(c)
  \/ \E c \in Callers : Cancel(c)
  \/ \E d \in TickSteps : Tick(d)

Spec == Init /\ [][Next]_vars

\* One digest of two items: every refresh gathers two coroutines.
TwoItemInit == Start /\ digests = [f \in {"a"} |-> 2]

\* The requests, refreshes and failures of Next on that digest, with the
\* clock in steps of RefreshAfter.
TwoItemNext ==
  \/ \E c \in Callers, f \in DOMAIN digests, delta \in SinceDeltas :
       handle_project(c, f, delta)
  \/ \E c \in Callers : Acquire(c)
  \/ \E c \in Callers : FetchReturns(c)
  \/ \E c \in Callers : FetchRaises(c)
  \/ Tick(RefreshAfter)

TwoItemSpec == TwoItemInit /\ [][TwoItemNext]_vars

\* Two digests of one item each, and the steps of Next on them at one time
\* of day.
TwoKeyInit == Start /\ digests = [f \in {"a", "b"} |-> 1]

TwoKeyNext ==
  \/ \E c \in Callers, f \in DOMAIN digests, delta \in SinceDeltas :
       handle_project(c, f, delta)
  \/ \E c \in Callers : Acquire(c)
  \/ \E c \in Callers : FetchReturns(c)
  \/ \E c \in Callers : FetchRaises(c)
  \/ \E c \in Callers : Cancel(c)

TwoKeySpec == TwoKeyInit /\ [][TwoKeyNext]_vars

----------------------------------------------------------------------------
(* _merge_entries as a function of its arguments: every pair of lists that  *)
(* are unique by id is an initial state, and the calls are the steps.  ret  *)
(* holds the arguments, then the arguments with what the call returned.    *)

MaxIds == 2

Stamps == {<<1, 0, 0, 8>>, <<1, 0, 2, 0>>}

Titles == {"x", "y"}

MergeEntries == [id : 1..MaxIds, updatedAt : Stamps, title : Titles]

UniqueById(xs) == \A i, j \in 1..Len(xs) : xs[i].id = xs[j].id => i = j

\* The lists of entries that are unique by id, in any order.
EntryLists ==
  {xs \in UNION {[1..k -> MergeEntries] : k \in 0..MaxIds} : UniqueById(xs)}

MergeInit ==
  /\ now \in StartTimes
  /\ digests = [f \in {} |-> 0]
  /\ stores = [f \in {} |-> 0]
  /\ task = [c \in Callers |-> Idle]
  /\ ret \in [kind : {"args"}, existing : EntryLists, new : EntryLists]
  /\ hist = [f \in Filenames |-> NoHist]
  /\ created = [f \in Filenames |-> 0]
  /\ gets = 0
  /\ ticks = 0

\* self._merge_entries(existing, new) is called and returns.
merge_entries_call ==
  /\ ret.kind = "args"
  /\ ret' = [kind |-> "merged", existing |-> ret.existing, new |-> ret.new,
             result |-> _merge_entries(ret.existing, ret.new)]
  /\ UNCHANGED <<digests, now, stores, task, hist, created, gets, ticks>>

\* The next refresh fetches the same list again: self._entries[i] =
\* self._merge_entries(self._entries[i], entries) on what the last call stored.
merge_entries_again ==
  /\ ret.kind = "merged"
  /\ ret' = [kind |-> "merged", existing |-> ret.result, new |-> ret.new,
             result |-> _merge_entries(ret.result, ret.new)]
  /\ UNCHANGED <<digests, now, stores, task, hist, created, gets, ticks>>

MergeNext ==
  \/ merge_entries_call
  \/ merge_entries_again

MergeSpec == MergeInit /\ [][MergeNext]_vars

----------------------------------------------------------------------------
(* Properties. *)

Fetching(f) == {c \in Callers : task[c].pc = "fetching" /\ task[c].key = f}

Ids(entries) == {entries[j].id : j \in 1..Len(entries)}

Elems(entries) == {entries[j] : j \in 1..Len(entries)}

\* C1: at most one upstream refresh is in flight for a key at any time.
C1_SingleFlight ==
  \A f \in Filenames : Cardinality(Fetching(f)) <= 1

\* A refresh is in flight while a second get for the key waits on the lock.
C1_Witness ==
  \E c, d \in Callers :
    /\ task[c].pc = "fetching"
    /\ task[d].pc = "waiting"
    /\ task[d].key = task[c].key

\* C2, as stated: a get issued together with the get that refreshed the stale
\* key, which waited on the lock until that fetch succeeded, never fetches.
C2_Original ==
  \A c \in Callers :
    ~ /\ task[c].pc = "fetching"
      /\ task[c].overlap.kind = "ok"
      /\ task[c].overlap.start = task[c].called

\* C2, amended: a get that waited on the lock until the holder's fetch
\* succeeded fetches only if more than RefreshAfter has passed since that
\* refresh started; when it does not fetch, its view is the metadata and the
\* entries newer than its since that the refresh stored.
C2_WaiterReusesRefresh ==
  /\ \A c \in Callers :
       task[c].pc = "fetching" /\ task[c].overlap.kind = "ok"
         => task[c].rstart > task[c].overlap.start + RefreshAfter
  /\ ret.kind = "ok" /\ ret.overlap.kind = "ok" /\ ret.nfetch = 0
       => \A i \in 1..Len(ret.view) :
            /\ ret.view[i].meta = ret.overlap.digests[i]
            /\ Elems(ret.view[i].entries) =
                 {e \in Elems(ret.overlap.entries[i]) : to_datetime(e.updatedAt) > ret.since}

\* The waiter returns, without a fetch, entries the first get's refresh stored.
C2_Witness ==
  /\ ret.kind = "ok"
  /\ ret.overlap.kind = "ok"
  /\ ret.nfetch = 0
  /\ ret.view[1].entries # <<>>

\* C3: the ids held in the merged entries of a key never shrink.
C3_IdsNeverShrink ==
  [][\A f \in DOMAIN stores :
       /\ f \in DOMAIN stores'
       /\ \A i \in 1..Len(stores[f].entries) :
            Ids(stores[f].entries[i]) \subseteq Ids(stores'[f].entries[i])]_vars

\* Two entries that no single fetch returns together are both held: a later,
\* narrower refresh kept what an earlier one had stored.
C3_Witness ==
  \E f \in DOMAIN stores :
    {E1a, E2b} \subseteq Elems(stores[f].entries[1])

\* A response to a get: what it returned or how it failed.
Answered == ret.kind \in {"ok", "error", "cancelled"}

\* The entries of a list that are updated after s, as a set.
After(entries, s) == {e \in Elems(entries) : to_datetime(e.updatedAt) > s}

\* C4, as stated: the get whose refresh raised does not fail; it returns the
\* metadata and the merged entries held before, filtered by its since.
C4_Original ==
  Answered /\ ret.nfetch = 1 /\ hist[ret.key].kind = "raised"
    => /\ ret.kind = "ok"
       /\ \A i \in 1..Len(ret.view) :
            /\ ret.view[i].meta = hist[ret.key].digests[i]
            /\ Elems(ret.view[i].entries) = After(hist[ret.key].entries[i], ret.since)

\* C4, amended: the get whose refresh raised fails with the error, and the
\* store holds the metadata and the entries it held before; a later get that
\* does not refresh returns them, filtered by its since.
C4_FailedRefreshKeepsData ==
  /\ Answered /\ ret.nfetch = 1 /\ hist[ret.key].kind = "raised"
       => /\ ret.kind = "error"
          /\ stores[ret.key].digests = hist[ret.key].digests
          /\ stores[ret.key].entries = hist[ret.key].entries
  /\ ret.kind = "ok" /\ ret.nfetch = 0 /\ hist[ret.key].kind = "raised"
       => \A i \in 1..Len(ret.view) :
            /\ ret.view[i].meta = hist[ret.key].digests[i]
            /\ Elems(ret.view[i].entries) = After(hist[ret.key].entries[i], ret.since)

\* After a refresh that stored entries, the next refresh raised, and a get
\* after that is served the entries without a fetch.
C4_Witness ==
  /\ ret.kind = "ok"
  /\ ret.nfetch = 0
  /\ hist[ret.key].kind = "raised"
  /\ ret.view[1].entries # <<>>

\* C5: after a refresh whose fetch raised the lock is free and last_entry is
\* the time that refresh started, and a get fetches again only when more than
\* RefreshAfter has passed since then.
C5_FailedRefreshHoldsOff ==
  /\ \A f \in DOMAIN stores :
       hist[f].kind = "raised" /\ Fetching(f) = {}
         => ~stores[f].locked /\ stores[f].last_entry = hist[f].start
  /\ \A c \in Callers :
       task[c].pc = "fetching" /\ hist[task[c].key].kind = "raised"
         => task[c].rstart > hist[task[c].key].start + RefreshAfter
  /\ ret.kind = "ok" /\ hist[ret.key].kind = "raised" => ret.nfetch = 0

\* A get that waited on the lock while the fetch raised returns without a fetch.
C5_Witness ==
  /\ ret.kind = "ok"
  /\ ret.overlap.kind = "raised"
  /\ ret.nfetch = 0
  /\ hist[ret.key].kind = "raised"

\* Request c starts a refresh in this step.
StartsRefresh(c) == task[c].pc # "fetching" /\ task'[c].pc = "fetching"

\* This step answers a get that fetched nothing.
ServesWithoutFetch == ret'.kind = "ok" /\ ret'.nfetch = 0

\* The conditions of the staleness rules, on last_entry le at time t.
Cold(le, t) == le < utctoday(t) - MaxLookBack

Due(le, t) == t - le > RefreshAfter

\* C6: the first get on a new store starts one refresh, with since = today -
\* MaxLookBack; and whenever last_entry is older than today - MaxLookBack a get
\* refreshes with that since, whatever the routine rule says.
C6_ColdRefresh ==
  [][/\ \A f \in (DOMAIN stores') \ (DOMAIN stores) :
          \E c \in Callers :
            /\ StartsRefresh(c)
            /\ task'[c].key = f
            /\ task'[c].nfetch = 1
            /\ task'[c].rsince = utctoday(now) - MaxLookBack
     /\ \A c \in Callers :
          StartsRefresh(c) /\ task'[c].key \in DOMAIN stores
               /\ Cold(stores[task'[c].key].last_entry, now)
            => task'[c].rsince = utctoday(now) - MaxLookBack
     /\ ServesWithoutFetch
          => /\ ret'.key \in DOMAIN stores
             /\ ~Cold(stores[ret'.key].last_entry, now)
     /\ ret'.kind = "ok" => ret'.nfetch <= 1]_vars

\* A store that was refreshed before has gone cold, and the get refreshes it
\* with the full window although the routine rule applies too.
C6_Witness ==
  \E c \in Callers :
    /\ task[c].pc = "fetching"
    /\ hist[task[c].key].kind = "ok"
    /\ task[c].rsince = utctoday(task[c].rstart) - MaxLookBack
    /\ Due(hist[task[c].key].start, task[c].rstart)

\* C7: a get that finds last_entry no more than RefreshAfter in the past and
\* not older than today - MaxLookBack fetches nothing and leaves last_entry,
\* the metadata and the merged entries as they are.
C7_WarmNoFetch ==
  [][/\ \A c \in Callers :
          StartsRefresh(c) /\ task'[c].key \in DOMAIN stores
            => \/ Cold(stores[task'[c].key].last_entry, now)
               \/ Due(stores[task'[c].key].last_entry, now)
     /\ ServesWithoutFetch
          => /\ ret'.key \in DOMAIN stores
             /\ stores'[ret'.key].last_entry = stores[ret'.key].last_entry
             /\ stores'[ret'.key].digests = stores[ret'.key].digests
             /\ stores'[ret'.key].entries = stores[ret'.key].entries]_vars

\* A get half an hour after a refresh that succeeded is served without a fetch.
C7_Witness ==
  /\ ret.kind = "ok"
  /\ ret.nfetch = 0
  /\ ret.overlap.kind = "none"
  /\ hist[ret.key].kind = "ok"
  /\ now = stores[ret.key].last_entry + RefreshAfter

\* C8: when the store is not cold and more than RefreshAfter has passed since
\* last_entry, the get refreshes, once, with since = the last_entry it found,
\* and stamps last_entry with the new time.
C8_RoutineSince ==
  [][/\ \A c \in Callers :
          StartsRefresh(c) /\ task'[c].key \in DOMAIN stores
               /\ ~Cold(stores[task'[c].key].last_entry, now)
            => /\ task'[c].rsince = stores[task'[c].key].last_entry
               /\ task'[c].nfetch = 1
               /\ stores'[task'[c].key].last_entry = now
     /\ ServesWithoutFetch
          => /\ ret'.key \in DOMAIN stores
             /\ ~Due(stores[ret'.key].last_entry, now)]_vars

\* A routine refresh in flight: its since is the start of the refresh before.
C8_Witness ==
  \E c \in Callers :
    /\ task[c].pc = "fetching"
    /\ hist[task[c].key].kind = "ok"
    /\ task[c].rsince = hist[task[c].key].start
    /\ task[c].rsince < task[c].rstart
    /\ stores[task[c].key].last_entry = task[c].rstart

\* C9: a get that returns gives, with the current metadata, exactly the
\* merged entries updated after since, newest first.
C9_ViewFiltered ==
  ret.kind = "ok"
    => \A i \in 1..Len(ret.view) :
         LET es == ret.view[i].entries IN
         /\ ret.view[i].meta = stores[ret.key].digests[i]
         /\ Elems(es) = After(stores[ret.key].entries[i], ret.since)
         /\ Cardinality(Elems(es)) = Len(es)
         /\ \A j, k \in 1..Len(es) :
              j < k => to_datetime(es[j].updatedAt) >= to_datetime(es[k].updatedAt)

\* The store holds an entry updated exactly at since, which the view leaves
\* out, and the view is not empty.
C9_Witness ==
  /\ ret.kind = "ok"
  /\ ret.view[1].entries # <<>>
  /\ \E e \in Elems(stores[ret.key].entries[1]) : to_datetime(e.updatedAt) = ret.since

\* C10: no two merged entries of a key share an id.
C10_UniqueIds ==
  \A f \in DOMAIN stores :
    \A i \in 1..Len(stores[f].entries) :
      Cardinality(Ids(stores[f].entries[i])) = Len(stores[f].entries[i])

\* Entries of two ids are held, one of them in a version that came with a
\* later fetch than the other id's: an id was merged twice.
C10_Witness ==
  \E f \in DOMAIN stores :
    /\ Len(stores[f].entries[1]) = 2
    /\ {E1a, E2a} \subseteq Elems(stores[f].entries[1])

\* C14: no more than one _DigestItemStore is ever constructed for a filename,
\* the registry holds it from then on, and every request for the filename
\* that is under way uses that store's lock: it holds it or is in its queue.
C14_OneStorePerKey ==
  /\ \A f \in Filenames :
       /\ created[f] <= 1
       /\ f \in DOMAIN stores <=> created[f] = 1
  /\ \A c \in Callers :
       task[c].pc # "idle"
         => /\ task[c].key \in DOMAIN stores
            /\ task[c].pc = "fetching" => stores[task[c].key].locked
            /\ task[c].pc = "waiting"
                 <=> \E j \in 1..Len(stores[task[c].key].waiters) :
                       stores[task[c].key].waiters[j] = c

\* Two first accesses of a filename at once: the first constructed the store
\* and awaits its first fetch, the second found the store and waits on its lock.
C14_Witness ==
  \E c, d \in Callers :
    /\ task[c].pc = "fetching"
    /\ task[d].pc = "waiting"
    /\ task[d].key = task[c].key
    /\ task[d].called = task[c].called
    /\ hist[task[c].key].kind = "none"
    /\ created[task[c].key] = 1

\* C15: a request for a filename that is not configured is answered not
\* found in the step it arrives, is never handed to the registry, and
\* constructs no store: the registry holds configured filenames only.
C15_UnknownKeyNotFound ==
  /\ DOMAIN stores \subseteq DOMAIN digests
  /\ \A f \in Filenames \ DOMAIN digests : created[f] = 0
  /\ \A c \in Callers : task[c].pc # "idle" => task[c].key \in DOMAIN digests
  /\ ret.kind \in {"ok", "error", "cancelled"} => ret.key \in DOMAIN digests
  /\ ret.kind = "notfound" => ret.key \notin DOMAIN digests /\ ret.nfetch = 0

\* A request for a filename that is not configured was answered not found,
\* while the registry holds the store of a configured one.
C15_Witness ==
  /\ ret.kind = "notfound"
  /\ ret.key \notin DOMAIN digests
  /\ DOMAIN stores # {}

\* No item of the store has been refreshed.
Untouched(st) ==
  \A i \in 1..Len(st.digests) : st.digests[i] = NoMeta /\ st.entries[i] = <<>>

\* C16: the metadata and entries of a store change only in the step in which
\* the holder of its lock returns from a fetch that succeeded, and then every
\* item has its metadata from that fetch; the step of a fetch that raised
\* leaves them as they were; last_entry changes only in the step in which a
\* request takes the lock; and a get returns only while no refresh of its
\* key is in flight.
C16_NoTornRefresh ==
  [][/\ \A f \in DOMAIN stores :
          /\ stores'[f].digests # stores[f].digests
                \/ stores'[f].entries # stores[f].entries
               => /\ stores[f].locked
                  /\ \E c \in Fetching(f) : task'[c].pc = "idle"
                  /\ ret'.kind = "ok" /\ ret'.key = f /\ ret'.nfetch = 1
          /\ stores'[f].last_entry # stores[f].last_entry
               => /\ ~stores[f].locked /\ stores'[f].locked
                  /\ \E c \in Callers : StartsRefresh(c) /\ task'[c].key = f
     /\ \A f \in DOMAIN stores' :
          Untouched(stores'[f])
            \/ \A i \in 1..Len(stores'[f].digests) : stores'[f].digests[i] # NoMeta
     /\ ret'.kind = "error"
          => /\ stores'[ret'.key].digests = stores[ret'.key].digests
             /\ stores'[ret'.key].entries = stores[ret'.key].entries
     /\ ret'.kind = "ok"
          => \A c \in Callers :
               ~(task'[c].pc = "fetching" /\ task'[c].key = ret'.key)]_vars

\* A refresh stored different metadata and entries for the two items of a
\* digest, and the refresh after it raised and left both as they were.
C16_Witness ==
  \E f \in DOMAIN stores :
    /\ Len(stores[f].digests) = 2
    /\ hist[f].kind = "raised"
    /\ stores[f].digests[1] # stores[f].digests[2]
    /\ stores[f].entries[1] # <<>>
    /\ stores[f].entries[2] # <<>>
    /\ stores[f].entries[1] # stores[f].entries[2]

\* Request c is for filename f, before or after the step.
Concerns(c, f) ==
  \/ task[c].pc # "idle" /\ task[c].key = f
  \/ task'[c].pc # "idle" /\ task'[c].key = f

\* C17: a request waits only for the lock of the store of its own filename,
\* and a step of a request for one filename leaves the store and the refresh
\* history of every other filename as they are: a get of one key refreshes
\* and returns while the refresh of another key is in flight.
C17_KeysIndependent ==
  [][/\ \A c \in Callers :
          task[c].pc # "waiting" /\ task'[c].pc = "waiting"
            => /\ task'[c].key \in DOMAIN stores
               /\ stores[task'[c].key].locked
                    \/ stores[task'[c].key].waiters # <<>>
     /\ \A f \in DOMAIN stores :
          stores'[f] # stores[f] \/ hist'[f] # hist[f]
            => \A c \in Callers : task'[c] # task[c] => Concerns(c, f)
     /\ \A c \in Callers :
          task[c].pc = "fetching" /\ task'[c] # task[c]
            => ret'.kind \in {"ok", "error", "cancelled"} /\ ret'.key = task[c].key]_vars

\* The second of two requests, for another filename than the first, has
\* constructed its store, refreshed it and returned, while the refresh of the
\* first is still in flight and has left its store untouched.
C17_Witness ==
  /\ gets = 2
  /\ task[1].pc = "fetching"
  /\ ret.kind = "ok"
  /\ ret.key # task[1].key
  /\ ret.nfetch = 1
  /\ ret.view[1].entries # <<>>
  /\ stores[task[1].key].locked
  /\ Untouched(stores[task[1].key])

\* C18, as stated: once a refresh of a store has succeeded, last_entry is the
\* time the last refresh that succeeded started; here for the states with no
\* refresh in flight whose last refresh returned or raised.
C18_Original ==
  \A f \in DOMAIN stores :
    /\ hist[f].okstart >= 0
    /\ Fetching(f) = {}
    /\ hist[f].kind \in {"ok", "raised"}
    => stores[f].last_entry = hist[f].okstart

\* C18, amended: last_entry is the time the last refresh of the store
\* started, whether it is in flight, succeeded, raised or was cancelled.
C18_LastEntryIsLastAttempt ==
  \A f \in DOMAIN stores :
    /\ \A c \in Fetching(f) : stores[f].last_entry = task[c].rstart
    /\ Fetching(f) = {} => stores[f].last_entry = hist[f].start
    /\ hist[f].okstart <= stores[f].last_entry

\* A refresh succeeded and a later one raised: last_entry is the start of the
\* one that raised.
C18_Witness ==
  \E f \in DOMAIN stores :
    /\ Fetching(f) = {}
    /\ hist[f].kind = "raised"
    /\ hist[f].okstart >= 0
    /\ hist[f].okstart < hist[f].start
    /\ stores[f].last_entry = hist[f].start

\* C19, as stated: the refresh of a request that is cancelled while its fetch
\* is pending is not abandoned: no store is left with last_entry at the start
\* of a refresh that ended with the request's cancellation and with the
\* metadata and entries it held before that refresh.
C19_Original ==
  \A f \in DOMAIN stores :
    ~ /\ hist[f].kind = "cancelled"
      /\ Fetching(f) = {}
      /\ stores[f].last_entry = hist[f].start
      /\ stores[f].digests = hist[f].digests
      /\ stores[f].entries = hist[f].entries

\* The request that started the first refresh of a store was cancelled, and
\* a later get is served the empty store without a fetch.
C19_Witness ==
  /\ ret.kind = "ok"
  /\ ret.nfetch = 0
  /\ hist[ret.key].kind = "cancelled"
  /\ stores[ret.key].last_entry = hist[ret.key].start
  /\ Untouched(stores[ret.key])

\* C20, as stated: a refresh that succeeds fetched with a since no later
\* than the start of the last refresh of the store that succeeded before it,
\* or with since = today - MaxLookBack.
C20_Original ==
  [][\A c \in Callers :
       task[c].pc = "fetching" /\ task'[c].pc = "idle" /\ ret'.kind = "ok"
         => \/ task[c].rsince = utctoday(task[c].rstart) - MaxLookBack
            \/ /\ hist[task[c].key].okstart >= 0
               /\ task[c].rsince <= hist[task[c].key].okstart]_vars

\* No refresh of the store has succeeded, the one before raised, and the one
\* in flight fetches only what was updated since that one started.
C20_Witness ==
  \E c \in Callers :
    /\ task[c].pc = "fetching"
    /\ hist[task[c].key].kind = "raised"
    /\ hist[task[c].key].okstart < 0
    /\ task[c].rsince = hist[task[c].key].start
    /\ task[c].rsince > utctoday(task[c].rstart) - MaxLookBack

\* The since values a request can have had so far: midnight of a day since
\* the start, less the since of its query.
Sinces ==
  {k * Day - d : k \in (CHOOSE t \in StartTimes : TRUE) \div Day .. now \div Day,
                 d \in SinceDeltas}

\* C13: of two gets of a key with no refresh between them, the one with the
\* smaller since returns every entry the other returns: for the response of
\* a get that did not refresh and the response the step before, and for any
\* two since values on the data a store holds.
C13_SinceMonotone ==
  /\ ret.kind = "ok" /\ ret.before.kind = "ok"
       => \A i \in 1..Len(ret.view) :
            /\ ret.before.since < ret.since
                 => Elems(ret.view[i].entries) \subseteq Elems(ret.before.view[i].entries)
            /\ ret.since < ret.before.since
                 => Elems(ret.before.view[i].entries) \subseteq Elems(ret.view[i].entries)
  /\ \A f \in DOMAIN stores : \A s1, s2 \in Sinces :
       s1 < s2
         => \A i \in 1..Len(stores[f].entries) :
              Elems(View(stores[f], s2)[i].entries)
                \subseteq Elems(View(stores[f], s1)[i].entries)

\* Two gets in a row with no refresh between them: the second, with the
\* greater since, returns an entry, and the first returned that and another.
C13_Witness ==
  /\ ret.kind = "ok"
  /\ ret.before.kind = "ok"
  /\ ret.before.since < ret.since
  /\ ret.view[1].entries # <<>>
  /\ Len(ret.before.view[1].entries) > Len(ret.view[1].entries)

----------------------------------------------------------------------------
(* Properties of _merge_entries, under MergeSpec. *)

\* C11: the merge of two lists that are unique by id holds every id of both,
\* and of an id that both have it holds the entry of the new list, with its
\* updatedAt and its content, and no other.
C11_MergeCoversNewWins ==
  ret.kind = "merged"
    => /\ Ids(ret.existing) \cup Ids(ret.new) \subseteq Ids(ret.result)
       /\ \A e \in Elems(ret.new) :
            e.id \in Ids(ret.existing)
              => \A x \in Elems(ret.result) : x.id = e.id => x = e

\* Both lists hold an id in entries that differ in updatedAt and in content,
\* and the existing list holds an id that the new list does not.
C11_Witness ==
  /\ ret.kind = "merged"
  /\ \E e \in Elems(ret.existing), n \in Elems(ret.new) :
       e.id = n.id /\ e.updatedAt # n.updatedAt /\ e.title # n.title
  /\ Ids(ret.existing) \ Ids(ret.new) # {}

\* xs is ys in the order of sorted(ys, key=updatedAt, reverse=True): the same
\* entries, newest first, entries of one updatedAt in the order ys has them.
IsSortOf(xs, ys) ==
  /\ Len(xs) = Len(ys)
  /\ Elems(xs) = Elems(ys)
  /\ \A j, k \in 1..Len(xs) :
       j < k => to_datetime(xs[j].updatedAt) >= to_datetime(xs[k].updatedAt)
  /\ \A j, k \in 1..Len(xs) :
       j < k /\ xs[j].updatedAt = xs[k].updatedAt
         => \E a, b \in 1..Len(ys) : a < b /\ ys[a] = xs[j] /\ ys[b] = xs[k]

\* C12: the merge of a list that is unique by id with itself is the list
\* sorted newest first, and merging the list that was merged last once more
\* leaves the merged entries as they are.
C12_MergeIdempotent ==
  [][/\ ret'.kind = "merged" /\ ret'.new = ret'.existing
          => IsSortOf(ret'.result, ret'.existing)
     /\ ret.kind = "merged" /\ ret'.kind = "merged"
          => ret'.existing = ret.result /\ ret'.new = ret.new
               /\ ret'.result = ret.result]_vars

\* A list that is not in order was merged with itself.
C12_Witness ==
  /\ ret.kind = "merged"
  /\ ret.new = ret.existing
  /\ Len(ret.existing) >= 2
  /\ ret.result # ret.existing

====
